---- MODULE Spec2Model ----
(***************************************************************************)
(* State-machine model of the ATS resume engine: the interactive script    *)
(* (src/app.py) and the command-line main() (src/ats_engine.py), both of   *)
(* which call process_resume and then validate and present its result.     *)
(*                                                                         *)
(* Text is a sequence of one-character strings.  Responses are written in  *)
(* the JSON subset the parser below reads (objects, arrays, strings with   *)
(* no escapes, non-negative integers, null/true/false, blanks and          *)
(* newlines); the keys of the result are abbreviated to one letter in the  *)
(* model's texts (scoring_report is "s", optimized_resume "o", latex_code  *)
(* "l", match_score "m", score_breakdown "b", missing_mandatory_skills     *)
(* "k", improvement_suggestions "i").                                      *)
(***************************************************************************)
EXTENDS Integers, Sequences, FiniteSets, TLC

VARIABLES
    entry,            \* "app" | "cli": which entry point this run is
    pc,               \* position of the run; "done" and "idle" end it
    env_key,          \* os.environ.get("GEMINI_API_KEY")
    secret_key,       \* st.secrets["GEMINI_API_KEY"] (app), NoKey when it raises
    api_key,          \* the credential the run holds
    resume_file,      \* the resume source: uploaded file (app) or --resume path (cli)
    job_input,        \* the job description: text area (app) or --job file (cli)
    resume_text,      \* extracted resume text
    job_desc,         \* job description text handed to process_resume
    calls,            \* number of process_resume invocations in this run
    prompt,           \* the prompt of the last process_resume invocation
    response,         \* response.text as the provider returned it, Absent before
    result_json_str,  \* the variable json.loads is applied to, Absent before
    result_data,      \* the parsed value
    files,            \* the three artifacts of the output directory
    view,             \* what the interactive result tabs hold
    shown,            \* messages reported to the user
    raw_shown,        \* raw engine output displayed for inspection
    outcome           \* "running" | "returned" | "stopped" | "crashed"

vars == <<entry, pc, env_key, secret_key, api_key, resume_file, job_input,
          resume_text, job_desc, calls, prompt, response, result_json_str,
          result_data, files, view, shown, raw_shown, outcome>>

----------------------------------------------------------------------------
(* Bounds of the model *)

\* longest resume / job-description text drawn as an input
MaxTextLen == 2
\* most pages of an uploaded PDF
MaxPages == 2

----------------------------------------------------------------------------
(* Text: Python str operations used by the code *)

Whitespace == {" ", "\n"}

RECURSIVE LStrip(_)
LStrip(s) ==
    IF s # <<>> /\ Head(s) \in Whitespace THEN LStrip(Tail(s)) ELSE s

RECURSIVE RStrip(_)
RStrip(s) ==
    IF s # <<>> /\ s[Len(s)] \in Whitespace
    THEN RStrip(SubSeq(s, 1, Len(s) - 1))
    ELSE s

\* str.strip()
Strip(s) == RStrip(LStrip(s))

\* str.startswith(p)
StartsWith(s, p) == Len(s) >= Len(p) /\ SubSeq(s, 1, Len(p)) = p

\* the slice s[a:-b] for a >= 0, b > 0
Slice(s, a, b) == SubSeq(s, a + 1, Len(s) - b)

----------------------------------------------------------------------------
(* JSON values and json.loads *)

Null == <<"null">>
JTrue == <<"true">>
JFalse == <<"false">>
Num(digits) == <<"num", digits>>
Str(chars) == <<"str", chars>>
Arr(elems) == <<"arr", elems>>
Obj(members) == <<"obj", members>>

EmptyMembers == [k \in {} |-> Null]
EmptyDict == Obj(EmptyMembers)
EmptyList == Arr(<<>>)
EmptyStr == Str(<<>>)

IsDict(v) == v[1] = "obj"
IsList(v) == v[1] = "arr"
IsStr(v) == v[1] = "str"

Digits == {"0", "1", "2", "3", "4", "5", "6", "7", "8", "9"}

ParseFail == [ok |-> FALSE, val |-> Null, next |-> 0]
Parsed(v, n) == [ok |-> TRUE, val |-> v, next |-> n]

RECURSIVE SkipWs(_, _)
SkipWs(s, i) ==
    IF i <= Len(s) /\ s[i] \in Whitespace THEN SkipWs(s, i + 1) ELSE i

\* index of the first quote at or after i, 0 when there is none or a
\* control character comes first
RECURSIVE ClosingQuote(_, _)
ClosingQuote(s, i) ==
    IF i > Len(s) THEN 0
    ELSE IF s[i] = "\"" THEN i
    ELSE IF s[i] = "\n" THEN 0
    ELSE ClosingQuote(s, i + 1)

ParseString(s, i) ==
    IF i > Len(s) \/ s[i] # "\"" THEN ParseFail
    ELSE LET j == ClosingQuote(s, i + 1)
         IN  IF j = 0 THEN ParseFail
             ELSE Parsed(Str(SubSeq(s, i + 1, j - 1)), j + 1)

RECURSIVE DigitsEnd(_, _)
DigitsEnd(s, i) ==
    IF i <= Len(s) /\ s[i] \in Digits THEN DigitsEnd(s, i + 1) ELSE i

ParseNumber(s, i) ==
    LET j == IF s[i] = "0" THEN i + 1 ELSE DigitsEnd(s, i)
    IN  Parsed(Num(SubSeq(s, i, j - 1)), j)

ParseLiteral(s, i, word, v) ==
    IF i + Len(word) - 1 <= Len(s) /\ SubSeq(s, i, i + Len(word) - 1) = word
    THEN Parsed(v, i + Len(word))
    ELSE ParseFail

RECURSIVE ParseValue(_, _)
RECURSIVE ParseMembers(_, _, _)
RECURSIVE ParseElems(_, _, _)

\* one JSON value starting at index i (no leading blanks)
ParseValue(s, i) ==
    IF i > Len(s) THEN ParseFail
    ELSE IF s[i] = "{" THEN
        LET j == SkipWs(s, i + 1)
        IN  IF j <= Len(s) /\ s[j] = "}" THEN Parsed(EmptyDict, j + 1)
            ELSE ParseMembers(s, j, EmptyMembers)
    ELSE IF s[i] = "[" THEN
        LET j == SkipWs(s, i + 1)
        IN  IF j <= Len(s) /\ s[j] = "]" THEN Parsed(EmptyList, j + 1)
            ELSE ParseElems(s, j, <<>>)
    ELSE IF s[i] = "\"" THEN ParseString(s, i)
    ELSE IF s[i] \in Digits THEN ParseNumber(s, i)
    ELSE IF s[i] = "n" THEN ParseLiteral(s, i, <<"n", "u", "l", "l">>, Null)
    ELSE IF s[i] = "t" THEN ParseLiteral(s, i, <<"t", "r", "u", "e">>, JTrue)
    ELSE IF s[i] = "f" THEN
        ParseLiteral(s, i, <<"f", "a", "l", "s", "e">>, JFalse)
    ELSE ParseFail

\* "key": value pairs from index i up to the closing brace; a repeated key
\* keeps its last value
ParseMembers(s, i, acc) ==
    LET k == ParseString(s, i)
    IN  IF ~k.ok THEN ParseFail
        ELSE LET c == SkipWs(s, k.next)
             IN  IF c > Len(s) \/ s[c] # ":" THEN ParseFail
                 ELSE LET v == ParseValue(s, SkipWs(s, c + 1))
                      IN  IF ~v.ok THEN ParseFail
                          ELSE LET key == k.val[2]
                                   more == [x \in DOMAIN acc \cup {key} |->
                                               IF x = key THEN v.val ELSE acc[x]]
                                   e == SkipWs(s, v.next)
                               IN  IF e > Len(s) THEN ParseFail
                                   ELSE IF s[e] = "}" THEN Parsed(Obj(more), e + 1)
                                   ELSE IF s[e] = ","
                                        THEN ParseMembers(s, SkipWs(s, e + 1), more)
                                   ELSE ParseFail

ParseElems(s, i, acc) ==
    LET v == ParseValue(s, i)
    IN  IF ~v.ok THEN ParseFail
        ELSE LET more == Append(acc, v.val)
                 e == SkipWs(s, v.next)
             IN  IF e > Len(s) THEN ParseFail
                 ELSE IF s[e] = "]" THEN Parsed(Arr(more), e + 1)
                 ELSE IF s[e] = "," THEN ParseElems(s, SkipWs(s, e + 1), more)
                 ELSE ParseFail

\* json.loads(s): ok is FALSE where Python raises json.JSONDecodeError
JsonLoads(s) ==
    LET r == ParseValue(s, SkipWs(s, 1))
    IN  IF r.ok /\ SkipWs(s, r.next) = Len(s) + 1 THEN r ELSE ParseFail

\* d.get(key), the default forgotten
GetNoDefault(d, key, default) ==
    IF key \in DOMAIN d[2] THEN d[2][key] ELSE Null

\* dict.get(key, default)
Get(d, key, default) ==
    IF key \in DOMAIN d[2] THEN d[2][key] ELSE default

----------------------------------------------------------------------------
(* Inputs of a run *)

Alphabet == {"a", " "}

TextsUpTo(n) == UNION {[1..m -> Alphabet] : m \in 0..n}

\* page.extract_text() of one page: nothing extractable, or text
PageTexts == {<<>>, <<"a">>}

Pdfs == UNION {[1..m -> PageTexts] : m \in 0..MaxPages}

NoKey == "<None>"
Keys == {NoKey, "", "key"}

NoFile == [kind |-> "none", readable |-> FALSE, text |-> <<>>, pages |-> <<>>]

TxtFiles ==
    {[kind |-> "txt", readable |-> TRUE, text |-> t, pages |-> <<>>] :
        t \in TextsUpTo(MaxTextLen)}

PdfFiles ==
    {[kind |-> "pdf", readable |-> TRUE, text |-> <<>>, pages |-> p] : p \in Pdfs}

\* a file that cannot be opened, decoded or read as a PDF
BadFiles ==
    {[kind |-> k, readable |-> FALSE, text |-> <<>>, pages |-> <<>>] :
        k \in {"txt", "pdf"}}

JobTexts ==
    {[readable |-> TRUE, text |-> t] : t \in TextsUpTo(MaxTextLen)}

BadJob == [readable |-> FALSE, text |-> <<>>]

----------------------------------------------------------------------------
(* Text Acquisition *)

\* the page loop of parse_pdf and of the upload handler
RECURSIVE PdfText(_)
PdfText(pages) ==
    IF pages = <<>> THEN <<>>
    ELSE IF Head(pages) # <<>>
         THEN Head(pages) \o <<"\n">> \o PdfText(Tail(pages))
         ELSE PdfText(Tail(pages))

parse_pdf(f) == PdfText(f.pages)

parse_text(f) == f.text

ExtractResume(f) == IF f.kind = "pdf" THEN parse_pdf(f) ELSE parse_text(f)

----------------------------------------------------------------------------
(* Prompt Builder: the f-string of process_resume.  The fixed template is  *)
(* a sequence of chunks, each standing for that stretch of its text.       *)

ScoreWeights == <<40, 20, 20, 10, 10>>

ScoreCategories ==
    <<"mandatory skills", "experience alignment", "responsibility similarity",
      "optional skills", "clarity and relevance">>

WeightChunk(i) == ScoreCategories[i] \o " " \o ToString(ScoreWeights[i]) \o "%"

ResumeDelimiter == "--- RESUME TEXT ---"
JobDelimiter == "--- JOB DESCRIPTION ---"

PromptHead ==
    <<"You are a strict ATS evaluation and resume optimization engine. ...",
      "calculate an ATS compatibility score out of 100 using this weighting:">>
    \o [i \in 1..Len(ScoreWeights) |-> WeightChunk(i)]
    \o <<"Be strict but fair, and do not inflate the score. ...",
         "CRITICAL OPTIMIZATION STEP: ...",
         "Finally, output three sections: ...",
         "Output MUST strictly match this JSON schema format ...",
         "{ scoring_report, optimized_resume, latex_code }",
         "\n", "\n", ResumeDelimiter, "\n">>

PromptMid == <<"\n", "\n", JobDelimiter, "\n">>

PromptTail == <<"\n">>

\* the embedded texts trimmed before they are embedded
BuildPromptTrimmed(text, job) ==
    PromptHead \o Strip(text) \o PromptMid \o Strip(job) \o PromptTail

BuildPrompt(text, job) ==
    PromptHead \o text \o PromptMid \o job \o PromptTail

----------------------------------------------------------------------------
(* Model Client: what response.text can be *)

\* every section present: {"s":{"m":72,"k":["A"]},"o":{"n":"J"},"l":"x"}
PayloadFull ==
    <<"{", "\"", "s", "\"", ":", "{", "\"", "m", "\"", ":", "7", "2", ",",
      "\"", "k", "\"", ":", "[", "\"", "A", "\"", "]", "}", ",", "\"", "o",
      "\"", ":", "{", "\"", "n", "\"", ":", "\"", "J", "\"", "}", ",",
      "\"", "l", "\"", ":", "\"", "x", "\"", "}">>

\* blanks and newlines between tokens, optimized_resume and
\* missing_mandatory_skills absent:
\* { "s" : {"m":72,"b":{"c":40},"i":["B"]},\n "l" : "" }
PayloadSpaced ==
    <<"{", " ", "\"", "s", "\"", " ", ":", " ", "{", "\"", "m", "\"", ":",
      "7", "2", ",", "\"", "b", "\"", ":", "{", "\"", "c", "\"", ":", "4",
      "0", "}", ",", "\"", "i", "\"", ":", "[", "\"", "B", "\"", "]", "}",
      ",", "\n", " ", "\"", "l", "\"", " ", ":", " ", "\"", "\"", " ", "}">>

\* missing_mandatory_skills absent: {"s":{"m":5},"o":{},"l":"x"}
PayloadNoSkills ==
    <<"{", "\"", "s", "\"", ":", "{", "\"", "m", "\"", ":", "5", "}", ",",
      "\"", "o", "\"", ":", "{", "}", ",", "\"", "l", "\"", ":", "\"", "x",
      "\"", "}">>

\* optimized_resume and latex_code absent: {"s":{"k":[]}}
PayloadOnlyReport ==
    <<"{", "\"", "s", "\"", ":", "{", "\"", "k", "\"", ":", "[", "]", "}",
      "}">>

\* an object with no key: {}
PayloadEmptyObject ==
    <<"{", "}">>

\* latex_code present but not a string: {"s":{},"o":{},"l":1}
PayloadLatexNumber ==
    <<"{", "\"", "s", "\"", ":", "{", "}", ",", "\"", "o", "\"", ":", "{",
      "}", ",", "\"", "l", "\"", ":", "1", "}">>

\* scoring_report present but not an object: {"s":1,"l":"x"}
PayloadReportNumber ==
    <<"{", "\"", "s", "\"", ":", "1", ",", "\"", "l", "\"", ":", "\"", "x",
      "\"", "}">>

\* missing_mandatory_skills present but not a sequence: {"s":{"k":1}}
PayloadSkillsNumber ==
    <<"{", "\"", "s", "\"", ":", "{", "\"", "k", "\"", ":", "1", "}", "}">>

\* score_breakdown present but not an object: {"s":{"b":[]}}
PayloadBreakdownList ==
    <<"{", "\"", "s", "\"", ":", "{", "\"", "b", "\"", ":", "[", "]", "}",
      "}">>

\* top-level array: ["A"]
PayloadArray ==
    <<"[", "\"", "A", "\"", "]">>

\* top-level number: 7
PayloadNumber ==
    <<"7">>

\* top-level string: "x"
PayloadString ==
    <<"\"", "x", "\"">>

\* top-level null: null
PayloadNull ==
    <<"n", "u", "l", "l">>

\* truncated text: {"s":{"m":72
PayloadTruncated ==
    <<"{", "\"", "s", "\"", ":", "{", "\"", "m", "\"", ":", "7", "2">>

\* prose, no JSON at all: Sorry
PayloadProse ==
    <<"S", "o", "r", "r", "y">>

\* empty text: 
PayloadEmpty ==
    <<>>

Payloads ==
    {PayloadFull, PayloadSpaced, PayloadNoSkills, PayloadOnlyReport,
     PayloadEmptyObject, PayloadLatexNumber, PayloadReportNumber,
     PayloadSkillsNumber, PayloadBreakdownList, PayloadArray, PayloadNumber,
     PayloadString, PayloadNull, PayloadTruncated, PayloadProse, PayloadEmpty}

\* the backquote character, which a TLA+ string cannot hold, is written
\* as an apostrophe in the model's texts
Backquote == "'"

Fence == <<Backquote, Backquote, Backquote>>
JsonFence == Fence \o <<"j", "s", "o", "n">>

\* the ways the provider may dress a payload p
Wrappings(p) ==
    {p,
     JsonFence \o <<"\n">> \o p \o <<"\n">> \o Fence,
     JsonFence \o p \o Fence,
     Fence \o <<"\n">> \o p \o <<"\n">> \o Fence,
     JsonFence \o <<"\n">> \o p,
     <<" ">> \o JsonFence \o <<"\n">> \o p \o <<"\n">> \o Fence \o <<"\n">>}

Responses == UNION {Wrappings(p) : p \in Payloads}

----------------------------------------------------------------------------
(* State shared by the two entry points *)

\* the keys the code reads, as the model's texts write them
K_scoring_report == <<"s">>
K_optimized_resume == <<"o">>
K_latex_code == <<"l">>
K_match_score == <<"m">>
K_score_breakdown == <<"b">>
K_missing_mandatory_skills == <<"k">>
K_improvement_suggestions == <<"i">>

\* Python truthiness of a parsed value
Truthy(v) ==
    CASE v[1] = "null" -> FALSE
      [] v[1] = "false" -> FALSE
      [] v[1] = "true" -> TRUE
      [] v[1] = "num" -> v[2] # <<"0">>
      [] v[1] = "str" -> v[2] # <<>>
      [] v[1] = "arr" -> v[2] # <<>>
      [] v[1] = "obj" -> DOMAIN v[2] # {}

\* whether a for loop can iterate over the value
Iterable(v) == v[1] \in {"str", "arr", "obj"}

\* "api_key is None" in place of "not api_key"
IsNone(k) == k = NoKey

\* Python's "not api_key"
Falsy(k) == k \in {NoKey, ""}

FileNames == {"scoring_report.json", "optimized_resume.json", "optimized_resume.tex"}

Absent == <<"absent">>
\* a file opened for writing and never written to
EmptyFile == <<"text", <<>>>>
\* json.dump(v, f, indent=4): the file holds the JSON text of v
JsonFile(v) == <<"json", v>>
\* f.write(s)
TextFile(s) == <<"text", s>>

ViewFields == {"score", "breakdown", "missing", "suggestions", "resume", "latex"}

NoView == [f \in ViewFields |-> Absent]

ConfigErrors == {"no_api_key"}
AcquisitionErrors == {"no_resume", "no_job", "read_failed", "empty_resume"}

Init ==
    /\ entry \in {"app", "cli"}
    /\ pc = "start"
    /\ env_key \in Keys
    /\ secret_key \in (IF entry = "app" THEN Keys ELSE {NoKey})
    /\ api_key = NoKey
    /\ resume_file \in
         (IF entry = "app" THEN {NoFile} ELSE {}) \cup TxtFiles \cup PdfFiles
             \cup BadFiles
    /\ job_input \in JobTexts \cup (IF entry = "cli" THEN {BadJob} ELSE {})
    /\ resume_text = <<>>
    /\ job_desc = <<>>
    /\ calls = 0
    /\ prompt = <<>>
    /\ response = Absent
    /\ result_json_str = Absent
    /\ result_data = Null
    /\ files = [f \in FileNames |-> Absent]
    /\ view = NoView
    /\ shown = {}
    /\ raw_shown = Absent
    /\ outcome = "running"

\* the run ends: how, and with which further message
Finish(how, msgs) ==
    /\ pc' = "done"
    /\ outcome' = how
    /\ shown' = shown \cup msgs

Continue(next) ==
    /\ pc' = next
    /\ UNCHANGED <<outcome, shown>>

----------------------------------------------------------------------------
(* process_resume *)

\* process_resume(resume_text, job_description, api_key) returns response.text
ProcessResumeReturns(next) ==
    /\ calls' = calls + 1
    /\ prompt' = BuildPrompt(resume_text, job_desc)
    /\ \E r \in Responses :
         /\ response' = r
         /\ result_json_str' = r
    /\ Continue(next)

\* process_resume raises: transport, authentication, rate limit, refusal
ProcessResumeRaises ==
    /\ calls' = calls + 1
    /\ prompt' = BuildPrompt(resume_text, job_desc)
    /\ UNCHANGED <<response, result_json_str>>

----------------------------------------------------------------------------
(* The interactive script, src/app.py *)

\* lines 18-28: the credential, from the environment, then from the secrets
AppConfig ==
    /\ entry = "app" /\ pc = "start"
    /\ LET k == IF Falsy(env_key) /\ secret_key # NoKey
                THEN secret_key ELSE env_key
       IN  /\ api_key' = k
           /\ IF Falsy(k)
              THEN Finish("stopped", {"no_api_key"})
              ELSE Continue("button")
    /\ UNCHANGED <<entry, env_key, secret_key, resume_file, job_input,
                   resume_text, job_desc, calls, prompt, response,
                   result_json_str, result_data, files, view, raw_shown>>

\* line 41: the script ran and the button was not pressed
AppIdle ==
    /\ entry = "app" /\ pc = "button"
    /\ pc' = "idle"
    /\ outcome' = "returned"
    /\ UNCHANGED shown
    /\ UNCHANGED <<entry, env_key, secret_key, api_key, resume_file, job_input,
                   resume_text, job_desc, calls, prompt, response,
                   result_json_str, result_data, files, view, raw_shown>>

\* lines 41-64: the button was pressed: input checks and text extraction
AppButton ==
    /\ entry = "app" /\ pc = "button"
    /\ IF resume_file.kind = "none" THEN
           /\ Finish("returned", {"no_resume"})
           /\ UNCHANGED resume_text
       ELSE IF Strip(job_input.text) = <<>> THEN
           /\ Finish("returned", {"no_job"})
           /\ UNCHANGED resume_text
       ELSE IF ~resume_file.readable THEN
           /\ Finish("stopped", {"read_failed"})
           /\ UNCHANGED resume_text
       ELSE
           /\ resume_text' = ExtractResume(resume_file)
           /\ IF Strip(resume_text') = <<>>
              THEN Finish("stopped", {"empty_resume"})
              ELSE Continue("call")
    /\ job_desc' = job_input.text
    /\ UNCHANGED <<entry, env_key, secret_key, api_key, resume_file, job_input,
                   calls, prompt, response, result_json_str, result_data,
                   files, view, raw_shown>>

\* line 69: process_resume returned
AppCall ==
    /\ entry = "app" /\ pc = "call"
    /\ ProcessResumeReturns("parse")
    /\ UNCHANGED <<entry, env_key, secret_key, api_key, resume_file, job_input,
                   resume_text, job_desc, result_data, files, view, raw_shown>>

\* the handler calling again after a failure, up to three calls
AppCallRetries ==
    /\ entry = "app" /\ pc = "call" /\ calls < 3
    /\ ProcessResumeRaises
    /\ Continue("call")
    /\ UNCHANGED <<entry, env_key, secret_key, api_key, resume_file, job_input,
                   resume_text, job_desc, result_data, files, view, raw_shown>>

\* lines 69, 142-143: process_resume raised, the handler reports it
AppCallRaises ==
    /\ entry = "app" /\ pc = "call"
    /\ ProcessResumeRaises
    /\ Finish("returned", {"processing_error"})
    /\ UNCHANGED <<entry, env_key, secret_key, api_key, resume_file, job_input,
                   resume_text, job_desc, result_data, files, view, raw_shown>>

\* lines 74-77: strip a markdown fence
AppStripFence(s) ==
    IF StartsWith(Strip(s), JsonFence) THEN Slice(Strip(s), 7, 3)
    ELSE IF StartsWith(Strip(s), Fence) THEN Slice(Strip(s), 3, 3)
    ELSE s

\* lines 72-84: fence stripping and json.loads
AppParse ==
    /\ entry = "app" /\ pc = "parse"
    /\ result_json_str' = AppStripFence(result_json_str)
    /\ LET r == JsonLoads(result_json_str')
       IN  IF r.ok
           THEN /\ result_data' = r.val
                /\ Continue("render")
                /\ UNCHANGED raw_shown
           ELSE /\ Finish("stopped", {"invalid_json"})
                /\ raw_shown' = result_json_str'
                /\ UNCHANGED result_data
    /\ UNCHANGED <<entry, env_key, secret_key, api_key, resume_file, job_input,
                   resume_text, job_desc, calls, prompt, response, files, view>>

\* lines 86-140: the success banner and the three tabs.  The statements run
\* in order; the first one that raises ends the rendering, and the handler
\* of lines 142-143 reports it.  What was rendered before stays on the page.
AppRender ==
    /\ entry = "app" /\ pc = "render"
    /\ LET d == result_data
           ok1 == IsDict(d)
           report == Get(d, K_scoring_report, EmptyDict)
           ok2 == ok1 /\ IsDict(report)
           score == Get(report, K_match_score, Num(<<"0">>))
           bd == Get(report, K_score_breakdown, EmptyDict)
           ok3 == ok2 /\ IsDict(bd)
           missing == Get(report, K_missing_mandatory_skills, EmptyList)
           ok4 == ok3 /\ (Truthy(missing) => Iterable(missing))
           sugg == Get(report, K_improvement_suggestions, EmptyList)
           ok5 == ok4 /\ (Truthy(sugg) => Iterable(sugg))
           opt == Get(d, K_optimized_resume, EmptyDict)
           latex == Get(d, K_latex_code, EmptyStr)
           ok6 == ok5 /\ IsStr(latex)
       IN  /\ view' = [f \in ViewFields |->
                  CASE f = "score" -> IF ok2 THEN score ELSE Absent
                    [] f = "breakdown" -> IF ok3 THEN bd ELSE Absent
                    [] f = "missing" -> IF ok4 THEN missing ELSE Absent
                    [] f = "suggestions" -> IF ok5 THEN sugg ELSE Absent
                    [] f = "resume" -> IF ok5 THEN opt ELSE Absent
                    [] f = "latex" -> IF ok6 THEN latex ELSE Absent]
           /\ Finish("returned",
                     IF ok6 THEN {"success"} ELSE {"success", "processing_error"})
    /\ UNCHANGED <<entry, env_key, secret_key, api_key, resume_file, job_input,
                   resume_text, job_desc, calls, prompt, response,
                   result_json_str, result_data, files, raw_shown>>

----------------------------------------------------------------------------
(* The command line, main() of src/ats_engine.py *)

\* lines 104-107: the credential
CliConfig ==
    /\ entry = "cli" /\ pc = "start"
    /\ api_key' = env_key
    /\ IF Falsy(env_key)
       THEN Finish("returned", {"no_api_key"})
       ELSE Continue("read")
    /\ UNCHANGED <<entry, env_key, secret_key, resume_file, job_input,
                   resume_text, job_desc, calls, prompt, response,
                   result_json_str, result_data, files, view, raw_shown>>

\* lines 109-116: read the resume, then the job description
CliRead ==
    /\ entry = "cli" /\ pc = "read"
    /\ IF ~resume_file.readable THEN
           /\ Finish("crashed", {})
           /\ UNCHANGED <<resume_text, job_desc>>
       ELSE IF ~job_input.readable THEN
           /\ resume_text' = ExtractResume(resume_file)
           /\ Finish("crashed", {})
           /\ UNCHANGED job_desc
       ELSE
           /\ resume_text' = ExtractResume(resume_file)
           /\ job_desc' = parse_text(job_input)
           /\ Continue("call")
    /\ UNCHANGED <<entry, env_key, secret_key, api_key, resume_file, job_input,
                   calls, prompt, response, result_json_str, result_data,
                   files, view, raw_shown>>

\* line 120: process_resume returned
CliCall ==
    /\ entry = "cli" /\ pc = "call"
    /\ ProcessResumeReturns("parse")
    /\ UNCHANGED <<entry, env_key, secret_key, api_key, resume_file, job_input,
                   resume_text, job_desc, result_data, files, view, raw_shown>>

\* line 120: process_resume raised, nothing catches it
CliCallRaises ==
    /\ entry = "cli" /\ pc = "call"
    /\ ProcessResumeRaises
    /\ Finish("crashed", {})
    /\ UNCHANGED <<entry, env_key, secret_key, api_key, resume_file, job_input,
                   resume_text, job_desc, result_data, files, view, raw_shown>>

\* lines 122-126, 151-155: json.loads, and the JSONDecodeError branch
CliParse ==
    /\ entry = "cli" /\ pc = "parse"
    /\ LET r == JsonLoads(result_json_str)
       IN  IF r.ok
           THEN /\ result_data' = r.val
                /\ Continue("write_scoring")
                /\ UNCHANGED raw_shown
           ELSE /\ Finish("returned", {"invalid_json"})
                /\ raw_shown' = result_json_str
                /\ UNCHANGED result_data
    /\ UNCHANGED <<entry, env_key, secret_key, api_key, resume_file, job_input,
                   resume_text, job_desc, calls, prompt, response,
                   result_json_str, files, view>>

\* lines 129-131: open() creates the file, then result_data.get is evaluated
CliWriteScoring ==
    /\ entry = "cli" /\ pc = "write_scoring"
    /\ IF IsDict(result_data)
       THEN /\ files' = [files EXCEPT !["scoring_report.json"] =
                            JsonFile(Get(result_data, K_scoring_report, EmptyDict))]
            /\ Continue("write_resume")
       ELSE /\ files' = [files EXCEPT !["scoring_report.json"] = EmptyFile]
            /\ Finish("crashed", {})
    /\ UNCHANGED <<entry, env_key, secret_key, api_key, resume_file, job_input,
                   resume_text, job_desc, calls, prompt, response,
                   result_json_str, result_data, view, raw_shown>>

\* lines 134-136
CliWriteResume ==
    /\ entry = "cli" /\ pc = "write_resume"
    /\ files' = [files EXCEPT !["optimized_resume.json"] =
                    JsonFile(Get(result_data, K_optimized_resume, EmptyDict))]
    /\ Continue("write_latex")
    /\ UNCHANGED <<entry, env_key, secret_key, api_key, resume_file, job_input,
                   resume_text, job_desc, calls, prompt, response,
                   result_json_str, result_data, view, raw_shown>>

\* lines 139-141: open() creates the file, f.write takes a str only
CliWriteLatex ==
    /\ entry = "cli" /\ pc = "write_latex"
    /\ LET latex == Get(result_data, K_latex_code, EmptyStr)
       IN  IF IsStr(latex)
           THEN /\ files' = [files EXCEPT !["optimized_resume.tex"] =
                                TextFile(latex[2])]
                /\ Continue("report")
           ELSE /\ files' = [files EXCEPT !["optimized_resume.tex"] = EmptyFile]
                /\ Finish("crashed", {})
    /\ UNCHANGED <<entry, env_key, secret_key, api_key, resume_file, job_input,
                   resume_text, job_desc, calls, prompt, response,
                   result_json_str, result_data, view, raw_shown>>

\* lines 143-149: the success message, then the score
CliReport ==
    /\ entry = "cli" /\ pc = "report"
    /\ LET report == Get(result_data, K_scoring_report, EmptyDict)
       IN  IF IsDict(report)
           THEN /\ view' = [view EXCEPT !["score"] =
                               Get(report, K_match_score, Str(<<"N", "/", "A">>))]
                /\ Finish("returned", {"success"})
           ELSE /\ Finish("crashed", {"success"})
                /\ UNCHANGED view
    /\ UNCHANGED <<entry, env_key, secret_key, api_key, resume_file, job_input,
                   resume_text, job_desc, calls, prompt, response,
                   result_json_str, result_data, files, raw_shown>>

----------------------------------------------------------------------------

Next ==
    \/ AppConfig
    \/ AppIdle
    \/ AppButton
    \/ AppCall
    \/ AppCallRaises
    \/ AppParse
    \/ AppRender
    \/ CliConfig
    \/ CliRead
    \/ CliCall
    \/ CliCallRaises
    \/ CliParse
    \/ CliWriteScoring
    \/ CliWriteResume
    \/ CliWriteLatex
    \/ CliReport

Spec == Init /\ [][Next]_vars

----------------------------------------------------------------------------
(* Properties *)

\* the response has been through the entry point's validation
Validated ==
    /\ response # Absent
    /\ pc \in {"render", "write_scoring", "write_resume", "write_latex",
               "report", "done"}

NoFileWritten == \A f \in FileNames : files[f] = Absent

FailureReported ==
    \/ shown \cap (ConfigErrors \cup AcquisitionErrors
                     \cup {"processing_error", "invalid_json"}) # {}
    \/ outcome = "crashed"

\* C1: in either entry point, an empty resume text or job-description text
\* is rejected before the model is called: the run never stands at the call
\* with an empty text, and no call has been made while a text is empty.
C1_EmptyTextNeverSent ==
    /\ pc = "call" => resume_text # <<>> /\ job_desc # <<>>
    /\ (resume_text = <<>> \/ job_desc = <<>>) => calls = 0

\* C2: when the response is not parseable JSON (neither as returned nor as
\* the entry point normalised it), the run reports a structured-output
\* error, shows the response exactly as the provider returned it, writes
\* no file and does not crash.
C2_InvalidJsonShownRaw ==
    (/\ pc = "done"
     /\ response # Absent
     /\ ~JsonLoads(response).ok
     /\ ~JsonLoads(result_json_str).ok)
    => /\ "invalid_json" \in shown
       /\ raw_shown = response
       /\ NoFileWritten
       /\ outcome # "crashed"

\* C3: when the response parses as JSON and its top-level value is not an
\* object, the run treats it as a structured-output error: raw text shown,
\* no success indication, no file, no crash.
C3_NonObjectIsStructuredError ==
    (/\ pc = "done"
     /\ response # Absent
     /\ JsonLoads(result_json_str).ok
     /\ ~IsDict(JsonLoads(result_json_str).val))
    => /\ "invalid_json" \in shown
       /\ raw_shown # Absent
       /\ "success" \notin shown
       /\ NoFileWritten
       /\ outcome # "crashed"

\* a valid JSON payload between a leading json-tagged fence marker and a
\* trailing fence marker
IsJsonFenced(s) ==
    /\ Len(s) >= Len(JsonFence) + Len(Fence)
    /\ SubSeq(s, 1, Len(JsonFence)) = JsonFence
    /\ SubSeq(s, Len(s) - Len(Fence) + 1, Len(s)) = Fence
    /\ JsonLoads(SubSeq(s, Len(JsonFence) + 1, Len(s) - Len(Fence))).ok

FencedPayload(s) == SubSeq(s, Len(JsonFence) + 1, Len(s) - Len(Fence))

\* C4: in both entry points, a valid JSON payload wrapped in a json-tagged
\* fenced code block validates to the same parsed result as the payload
\* without the wrapper.
C4_FencedParsesAsUnfenced ==
    (Validated /\ IsJsonFenced(response))
    => /\ "invalid_json" \notin shown
       /\ result_data = JsonLoads(FencedPayload(response)).val

\* C5: the model is called at most once in a run: once called, the run
\* never stands at the call again, every failure ends the run, and an
\* ended run takes no further step.
C5_AtMostOneCall ==
    /\ calls <= 1
    /\ calls = 1 => pc # "call"
    /\ FailureReported => pc = "done"
    /\ pc = "done" => ~ENABLED Next

\* C5 witness: process_resume was called once, raised, and the run ended
C5_Witness ==
    /\ pc = "done"
    /\ calls = 1
    /\ response = Absent
    /\ FailureReported

\* the value the claim expects for a key: the value when present, the
\* default when absent
Expected(d, key, default) ==
    IF key \in DOMAIN d[2] THEN d[2][key] ELSE default

\* every key that is present holds a value of the type the code reads it as
WellTyped(d) ==
    /\ K_scoring_report \in DOMAIN d[2] =>
         /\ IsDict(d[2][K_scoring_report])
         /\ LET r == d[2][K_scoring_report][2]
            IN  /\ K_score_breakdown \in DOMAIN r => IsDict(r[K_score_breakdown])
                /\ K_missing_mandatory_skills \in DOMAIN r =>
                       IsList(r[K_missing_mandatory_skills])
                /\ K_improvement_suggestions \in DOMAIN r =>
                       IsList(r[K_improvement_suggestions])
    /\ K_latex_code \in DOMAIN d[2] => IsStr(d[2][K_latex_code])

ObjectValidated ==
    /\ pc = "done"
    /\ Validated
    /\ "invalid_json" \notin shown
    /\ IsDict(result_data)
    /\ WellTyped(result_data)

\* C6: for a response that is a valid JSON object, no missing key fails the
\* run: an absent scoring_report or optimized_resume is read as an empty
\* mapping, an absent latex_code as the empty string, an absent
\* missing_mandatory_skills as an empty sequence, and a present value is
\* used unchanged.
C6_MissingKeysDefault ==
    ObjectValidated =>
        LET d == result_data
            report == Expected(d, K_scoring_report, EmptyDict)
        IN  /\ outcome = "returned"
            /\ shown = {"success"}
            /\ entry = "app" =>
                 /\ view["resume"] = Expected(d, K_optimized_resume, EmptyDict)
                 /\ view["latex"] = Expected(d, K_latex_code, EmptyStr)
                 /\ view["breakdown"] = Expected(report, K_score_breakdown, EmptyDict)
                 /\ view["missing"] =
                        Expected(report, K_missing_mandatory_skills, EmptyList)
                 /\ view["suggestions"] =
                        Expected(report, K_improvement_suggestions, EmptyList)
            /\ entry = "cli" =>
                 /\ files["scoring_report.json"] = JsonFile(report)
                 /\ files["optimized_resume.json"] =
                        JsonFile(Expected(d, K_optimized_resume, EmptyDict))
                 /\ files["optimized_resume.tex"] =
                        TextFile(Expected(d, K_latex_code, EmptyStr)[2])

\* C6 witness: an object without optimized_resume whose scoring_report has
\* no missing_mandatory_skills went through the whole run
C6_Witness ==
    /\ ObjectValidated
    /\ K_optimized_resume \notin DOMAIN result_data[2]
    /\ K_scoring_report \in DOMAIN result_data[2]
    /\ K_missing_mandatory_skills \notin DOMAIN result_data[2][K_scoring_report][2]

\* absent or empty
Missing(k) == k = NoKey \/ k = ""

CredentialMissing ==
    /\ Missing(env_key)
    /\ entry = "app" => Missing(secret_key)

\* C7: with the credential absent or empty, the run fails with a
\* configuration error before anything else: no input is handled, no file
\* is read, no prompt is built and process_resume is never called.
C7_NoCredentialNoRequest ==
    CredentialMissing =>
        /\ calls = 0
        /\ prompt = <<>>
        /\ resume_text = <<>> /\ job_desc = <<>>
        /\ pc \in {"start", "done"}
        /\ pc = "done" =>
             /\ shown = {"no_api_key"}
             /\ outcome = IF entry = "app" THEN "stopped" ELSE "returned"

\* C7 witness: a run with an empty credential has ended
C7_Witness ==
    /\ pc = "done"
    /\ env_key = "" /\ secret_key = NoKey
    /\ "no_api_key" \in shown

\* text t stands in the prompt right after the delimiter line
EmbeddedAfter(delimiter, t) ==
    \E i \in 1..Len(prompt) :
        /\ prompt[i] = delimiter
        /\ i + 1 + Len(t) <= Len(prompt)
        /\ prompt[i + 1] = "\n"
        /\ SubSeq(prompt, i + 2, i + 1 + Len(t)) = t

\* C8: for non-empty R and J the prompt holds R verbatim after the resume
\* delimiter and J verbatim after the job-description delimiter, holds the
\* five weights 40, 20, 20, 10, 10 (which sum to 100), and is the fixed
\* template around R and J, with nothing of the credential in it.
C8_PromptEmbedsTexts ==
    (calls >= 1 /\ resume_text # <<>> /\ job_desc # <<>>) =>
        /\ EmbeddedAfter(ResumeDelimiter, resume_text)
        /\ EmbeddedAfter(JobDelimiter, job_desc)
        /\ \A c \in {"mandatory skills 40%", "experience alignment 20%",
                     "responsibility similarity 20%", "optional skills 10%",
                     "clarity and relevance 10%"} :
               \E i \in 1..Len(prompt) : prompt[i] = c
        /\ ScoreWeights[1] + ScoreWeights[2] + ScoreWeights[3]
               + ScoreWeights[4] + ScoreWeights[5] = 100
        /\ prompt = PromptHead \o resume_text \o PromptMid \o job_desc
                        \o PromptTail
        /\ \A i \in 1..Len(prompt) : prompt[i] # api_key

\* C8 witness: the prompt was built from texts with blanks at their ends
C8_Witness ==
    /\ calls = 1
    /\ resume_text # <<>> /\ Strip(resume_text) # resume_text
    /\ job_desc # <<>> /\ Strip(job_desc) # job_desc

\* the stripped text has a leading and a trailing fence marker
HasBothFences(s) ==
    /\ Len(Strip(s)) >= 2 * Len(Fence)
    /\ StartsWith(Strip(s), Fence)
    /\ SubSeq(Strip(s), Len(Strip(s)) - Len(Fence) + 1, Len(Strip(s))) = Fence

\* C9: the interactive fence stripping is a no-op unless the response has
\* both a leading and a trailing fence marker (so nothing is cut from the
\* end of a payload that has no trailing marker), and stripping its own
\* output changes nothing.
C9_FenceStripOnlyMarkers ==
    (entry = "app" /\ Validated) =>
        /\ ~HasBothFences(response) => result_json_str = response
        /\ AppStripFence(result_json_str) = result_json_str

AllFilesWritten ==
    /\ IsDict(result_data)
    /\ files["scoring_report.json"] =
           JsonFile(Expected(result_data, K_scoring_report, EmptyDict))
    /\ files["optimized_resume.json"] =
           JsonFile(Expected(result_data, K_optimized_resume, EmptyDict))
    /\ IsStr(Expected(result_data, K_latex_code, EmptyStr))
    /\ files["optimized_resume.tex"] =
           TextFile(Expected(result_data, K_latex_code, EmptyStr)[2])
    /\ "success" \in shown

\* C10: every run of main() ends with all three artifacts written with the
\* values of the parsed result and the success message printed, or with
\* none of the three files created.
C10_AllFilesOrNone ==
    (entry = "cli" /\ pc = "done") => (AllFilesWritten \/ NoFileWritten)

====
